---- MODULE Spec2Model ----
(***************************************************************************)
(* A model of leave_planner.py: the parsers of its three inputs, the       *)
(* entitlement and usage arithmetic, the day classifier, and main() as a   *)
(* sequence of steps with its file reads, its output file and its two      *)
(* output channels.                                                        *)
(*                                                                         *)
(* Text is a sequence of one-character strings, so that splitting,         *)
(* stripping and the parsing of dates and integers are computed on the     *)
(* characters as Python computes them.  A date is a record                 *)
(* [year, month, day]; a Python dict is a function whose domain is the     *)
(* dict's key set.  The wall-clock year read by date.today() is one value  *)
(* per run (the run does not straddle New Year).                           *)
(***************************************************************************)
EXTENDS Integers, Sequences, FiniteSets, TLC

VARIABLES
    pc,                 \* the step of main() to run next
    args,               \* argparse's namespace: working_days (text), show_years
    fs,                 \* the file system: public_dir, csv, leave_csv, out_writable
    today_year,         \* date.today().year
    working_days,       \* main's working_days: 7 flags, Monday first
    public_holidays,    \* main's public_holidays: a set of dates
    holiday_dates,      \* main's holiday_dates: a set of dates
    leave_info,         \* main's leave_info
    entitlements,       \* main's entitlements: year -> days
    burned_leave,       \* main's burned_leave
    used_by_year,       \* main's used_by_year: year -> days
    leave_left_by_year, \* main's leave_left_by_year: year -> days
    ys,                 \* main's ys: the years shown
    annual_leave_used,  \* main's annual_leave_used
    html,               \* main's html: the document built by build_html_page
    out_file,           \* the content of the output path
    stdout,             \* what was printed on sys.stdout
    stderr,             \* what was written on sys.stderr
    reads,              \* the input paths the run has touched
    exit_status         \* the process's exit status

vars == <<pc, args, fs, today_year, working_days, public_holidays, holiday_dates,
          leave_info, entitlements, burned_leave, used_by_year, leave_left_by_year,
          ys, annual_leave_used, html, out_file, stdout, stderr, reads, exit_status>>

----------------------------------------------------------------------------
(* Python's str methods, on sequences of characters *)

\* the characters str.strip() removes that occur in the model's texts
Whitespace == {" ", "\t", "\n", "\r"}

Digits == <<"0", "1", "2", "3", "4", "5", "6", "7", "8", "9">>

IsDigit(c) == \E i \in 1..10 : Digits[i] = c

DigitVal(c) == (CHOOSE i \in 1..10 : Digits[i] = c) - 1

RECURSIVE LStrip(_)
LStrip(s) == IF s # <<>> /\ Head(s) \in Whitespace THEN LStrip(Tail(s)) ELSE s

RECURSIVE RStrip(_)
RStrip(s) ==
    IF s # <<>> /\ s[Len(s)] \in Whitespace THEN RStrip(SubSeq(s, 1, Len(s) - 1)) ELSE s

\* str.strip()
Strip(s) == RStrip(LStrip(s))

\* str.replace(a, b) for single characters
Replace(s, a, b) == [i \in 1..Len(s) |-> IF s[i] = a THEN b ELSE s[i]]

\* the index of the first occurrence of c in s, 0 when there is none
Find(s, c) ==
    IF \E i \in 1..Len(s) : s[i] = c
    THEN CHOOSE i \in 1..Len(s) : s[i] = c /\ \A j \in 1..(i - 1) : s[j] # c
    ELSE 0

\* str.split(sep): one more piece than there are separators
RECURSIVE Split(_, _)
Split(s, sep) ==
    LET i == Find(s, sep)
    IN  IF i = 0 THEN <<s>>
        ELSE <<SubSeq(s, 1, i - 1)>> \o Split(SubSeq(s, i + 1, Len(s)), sep)

\* str.split(sep, 1), for a string that holds sep
SplitFirst(s, sep) ==
    LET i == Find(s, sep)
    IN  <<SubSeq(s, 1, i - 1), SubSeq(s, i + 1, Len(s))>>

\* str.splitlines(): no piece for the empty string or after a final line break
SplitLines(s) ==
    IF s = <<>> THEN <<>>
    ELSE IF s[Len(s)] = "\n" THEN Split(SubSeq(s, 1, Len(s) - 1), "\n")
    ELSE Split(s, "\n")

\* [f(x) for x in seq if keep(x)] with f = strip and keep = non-empty after strip
RECURSIVE StripAndDropEmpty(_)
StripAndDropEmpty(pieces) ==
    IF pieces = <<>> THEN <<>>
    ELSE LET t == Strip(Head(pieces))
         IN  (IF t = <<>> THEN <<>> ELSE <<t>>) \o StripAndDropEmpty(Tail(pieces))

\* int(s): surrounding whitespace, an optional sign, then one or more digits
RECURSIVE DigitsValue(_, _)
DigitsValue(s, acc) ==
    IF s = <<>> THEN acc ELSE DigitsValue(Tail(s), 10 * acc + DigitVal(Head(s)))

IntParse(s) ==
    LET t    == Strip(s)
        sign == IF t # <<>> /\ Head(t) \in {"+", "-"} THEN Head(t) ELSE ""
        body == IF sign = "" THEN t ELSE Tail(t)
    IN  IF body # <<>> /\ \A i \in 1..Len(body) : IsDigit(body[i])
        THEN [ok |-> TRUE,
              val |-> IF sign = "-" THEN 0 - DigitsValue(body, 0) ELSE DigitsValue(body, 0)]
        ELSE [ok |-> FALSE, val |-> 0]

----------------------------------------------------------------------------
(* datetime.date *)

MINYEAR == 1
MAXYEAR == 9999

IsLeap(y) == y % 4 = 0 /\ (y % 100 # 0 \/ y % 400 = 0)

DaysInMonth(y, m) ==
    IF m = 2 THEN (IF IsLeap(y) THEN 29 ELSE 28)
    ELSE IF m \in {4, 6, 9, 11} THEN 30 ELSE 31

\* date(y, m, d) raises ValueError unless this holds
ValidYMD(y, m, d) ==
    /\ MINYEAR <= y /\ y <= MAXYEAR
    /\ 1 <= m /\ m <= 12
    /\ 1 <= d /\ d <= DaysInMonth(y, m)

MkDate(y, m, d) == [year |-> y, month |-> m, day |-> d]

NoDate == MkDate(0, 0, 0)

DaysBeforeYear(y) == (y - 1) * 365 + (y - 1) \div 4 - (y - 1) \div 100 + (y - 1) \div 400

RECURSIVE DaysBeforeMonth(_, _)
DaysBeforeMonth(y, m) ==
    IF m = 1 THEN 0 ELSE DaysBeforeMonth(y, m - 1) + DaysInMonth(y, m - 1)

\* date.toordinal()
ToOrdinal(dt) == DaysBeforeYear(dt.year) + DaysBeforeMonth(dt.year, dt.month) + dt.day

\* date.weekday(): Monday is 0
Weekday(dt) == (ToOrdinal(dt) + 6) % 7

\* a < b and a <= b on dates
DateLt(a, b) ==
    \/ a.year < b.year
    \/ a.year = b.year /\ a.month < b.month
    \/ a.year = b.year /\ a.month = b.month /\ a.day < b.day

DateLe(a, b) == a = b \/ DateLt(a, b)

DateMax == MkDate(MAXYEAR, 12, 31)

\* dt + timedelta(days=1), for dt before date.max (date.max raises OverflowError)
NextDay(dt) ==
    IF dt.day < DaysInMonth(dt.year, dt.month) THEN MkDate(dt.year, dt.month, dt.day + 1)
    ELSE IF dt.month < 12 THEN MkDate(dt.year, dt.month + 1, 1)
    ELSE MkDate(dt.year + 1, 1, 1)

\* the alternatives of %m and of %d in strptime's regular expression, by length
MatchMonth2(s) ==
    /\ Len(s) = 2
    /\ \/ s[1] = "1" /\ s[2] \in {"0", "1", "2"}
       \/ s[1] = "0" /\ IsDigit(s[2]) /\ s[2] # "0"

MatchMonth1(s) == Len(s) = 1 /\ IsDigit(s[1]) /\ s[1] # "0"

MatchDay2(s) ==
    /\ Len(s) = 2
    /\ \/ s[1] = "3" /\ s[2] \in {"0", "1"}
       \/ s[1] \in {"1", "2"} /\ IsDigit(s[2])
       \/ s[1] \in {"0", " "} /\ IsDigit(s[2]) /\ s[2] # "0"

MatchDay1(s) == Len(s) = 1 /\ IsDigit(s[1]) /\ s[1] # "0"

\* the value of a month or day group (a leading space counts as nothing)
GroupValue(s) == DigitsValue(SelectSeq(s, IsDigit), 0)

\* datetime.strptime(s, '%Y%m%d').date(): the regular expression
\* (\d\d\d\d)(1[0-2]|0[1-9]|[1-9])(3[01]|[12]\d|0[1-9]|[1-9]| [1-9]) is matched at the
\* start of s, its first match in the alternatives' order is taken, and that match
\* must end where s ends; then date(Y, m, d) must be a date
Strptime(s) ==
    LET n     == Len(s)
        sub(a, k) == IF a + k - 1 <= n THEN SubSeq(s, a, a + k - 1) ELSE <<>>
        m2    == MatchMonth2(sub(5, 2))
        m1    == MatchMonth1(sub(5, 1))
        \* the (month length, day length) of the first match, <<0, 0>> when none
        shape == IF n < 4 \/ \E i \in 1..4 : ~IsDigit(s[i]) THEN <<0, 0>>
                 ELSE IF m2 /\ MatchDay2(sub(7, 2)) THEN <<2, 2>>
                 ELSE IF m2 /\ MatchDay1(sub(7, 1)) THEN <<2, 1>>
                 ELSE IF m1 /\ MatchDay2(sub(6, 2)) THEN <<1, 2>>
                 ELSE IF m1 /\ MatchDay1(sub(6, 1)) THEN <<1, 1>>
                 ELSE <<0, 0>>
        y     == DigitsValue(SubSeq(s, 1, 4), 0)
        m     == GroupValue(sub(5, shape[1]))
        d     == GroupValue(sub(5 + shape[1], shape[2]))
    IN  IF shape = <<0, 0>> THEN [ok |-> FALSE, val |-> NoDate]
        ELSE IF 4 + shape[1] + shape[2] # n THEN [ok |-> FALSE, val |-> NoDate]
        ELSE IF ~ValidYMD(y, m, d) THEN [ok |-> FALSE, val |-> NoDate]
        ELSE [ok |-> TRUE, val |-> MkDate(y, m, d)]

----------------------------------------------------------------------------
(* The files.  A text file is [exists, utf8, text]: whether the path exists,   *)
(* whether its bytes decode as UTF-8, and the decoded characters.  A calendar  *)
(* file is [utf8, lines], its lines as readlines() returns them (they decode   *)
(* as latin-1 whatever the bytes are).  The calendar directory is              *)
(* [exists, files], its files in the sorted order of the glob.                 *)

TextFile(t) == [exists |-> TRUE, utf8 |-> TRUE, text |-> t]

MissingFile == [exists |-> FALSE, utf8 |-> TRUE, text |-> <<>>]

UndecodableFile == [exists |-> TRUE, utf8 |-> FALSE, text |-> <<>>]

----------------------------------------------------------------------------
(* ICS parsing *)

RECURSIVE RStripChar(_, _)
RStripChar(s, c) ==
    IF s # <<>> /\ s[Len(s)] = c THEN RStripChar(SubSeq(s, 1, Len(s) - 1), c) ELSE s

StartsWith(s, prefix) == Len(s) >= Len(prefix) /\ SubSeq(s, 1, Len(prefix)) = prefix

RECURSIVE UnfoldFrom(_, _)
UnfoldFrom(lines, unfolded) ==
    IF lines = <<>> THEN unfolded
    ELSE LET line == RStripChar(RStripChar(Head(lines), "\n"), "\r")
             n    == Len(unfolded)
         IN  IF unfolded = <<>> THEN UnfoldFrom(Tail(lines), <<line>>)
             ELSE IF StartsWith(line, <<" ">>)
             THEN UnfoldFrom(Tail(lines),
                             [unfolded EXCEPT ![n] = unfolded[n] \o Tail(line)])
             ELSE UnfoldFrom(Tail(lines), Append(unfolded, line))

unfold_ics_lines(lines) == UnfoldFrom(lines, <<>>)

BEGIN_VEVENT == <<"B", "E", "G", "I", "N", ":", "V", "E", "V", "E", "N", "T">>
END_VEVENT == <<"E", "N", "D", ":", "V", "E", "V", "E", "N", "T">>
DTSTART == <<"D", "T", "S", "T", "A", "R", "T">>

\* the date of a DTSTART line: the text after the first colon, stripped, cut to 8
\* characters and parsed; not ok for a line without a colon or with no date there
DtstartDate(line) ==
    IF Find(line, ":") = 0 THEN [ok |-> FALSE, val |-> NoDate]
    ELSE LET value == Strip(SplitFirst(line, ":")[2])
         IN  Strptime(SubSeq(value, 1, IF Len(value) < 8 THEN Len(value) ELSE 8))

RECURSIVE ScanEvents(_, _, _)
ScanEvents(lines, in_event, dates) ==
    IF lines = <<>> THEN dates
    ELSE LET line == Head(lines)
         IN  IF StartsWith(line, BEGIN_VEVENT) THEN ScanEvents(Tail(lines), TRUE, dates)
             ELSE IF StartsWith(line, END_VEVENT) THEN ScanEvents(Tail(lines), FALSE, dates)
             ELSE IF in_event /\ StartsWith(line, DTSTART) /\ DtstartDate(line).ok
             THEN ScanEvents(Tail(lines), in_event, dates \cup {DtstartDate(line).val})
             ELSE ScanEvents(Tail(lines), in_event, dates)

\* the file exists (it was matched by the glob); a UTF-8 failure falls back to latin-1,
\* which decodes any bytes, to the same lines
parse_ics_dtstart_dates(file) == ScanEvents(unfold_ics_lines(file.lines), FALSE, {})

RECURSIVE UnionOfFiles(_)
UnionOfFiles(files) ==
    IF files = <<>> THEN {}
    ELSE parse_ics_dtstart_dates(Head(files)) \cup UnionOfFiles(Tail(files))

load_public_holidays(dir) == IF ~dir.exists THEN {} ELSE UnionOfFiles(dir.files)

----------------------------------------------------------------------------
(* holidays.csv parsing *)

\* the while loop of a range: cur runs from start_d to end_d; stepping past date.max
\* raises OverflowError, which ends the token with the dates added so far kept
RECURSIVE ExpandRange(_, _, _)
ExpandRange(cur, end_d, dates) ==
    IF ~DateLe(cur, end_d) THEN dates
    ELSE IF cur = DateMax THEN dates \cup {cur}
    ELSE ExpandRange(NextDay(cur), end_d, dates \cup {cur})

\* TokenDates without the swap of an end before its start
TokenDates_NoSwap(tok) ==
    IF Find(tok, "-") = 0
    THEN LET r == Strptime(tok) IN IF r.ok THEN {r.val} ELSE {}
    ELSE LET parts == SplitFirst(tok, "-")
             s     == Strptime(parts[1])
             e     == Strptime(parts[2])
         IN  IF ~s.ok \/ ~e.ok THEN {} ELSE ExpandRange(s.val, e.val, {})

\* the dates one token adds
TokenDates(tok) ==
    IF Find(tok, "-") = 0
    THEN LET r == Strptime(tok) IN IF r.ok THEN {r.val} ELSE {}
    ELSE LET parts == SplitFirst(tok, "-")
             s     == Strptime(parts[1])
             e     == Strptime(parts[2])
         IN  IF ~s.ok \/ ~e.ok THEN {}
             ELSE IF DateLt(e.val, s.val) THEN ExpandRange(e.val, s.val, {})
             ELSE ExpandRange(s.val, e.val, {})

RECURSIVE TokensDates(_)
TokensDates(tokens) ==
    IF tokens = <<>> THEN {} ELSE TokenDates(Head(tokens)) \cup TokensDates(Tail(tokens))

\* [raised, dates]: read_text is outside any try, so bytes that are not UTF-8 raise
\* UnicodeDecodeError out of the function
parse_holiday_ranges(file) ==
    IF ~file.exists THEN [raised |-> FALSE, dates |-> {}]
    ELSE IF ~file.utf8 THEN [raised |-> TRUE, dates |-> {}]
    ELSE LET content == Strip(file.text)
             tokens  == StripAndDropEmpty(Split(Replace(content, "\n", ","), ","))
         IN  [raised |-> FALSE, dates |-> TokensDates(tokens)]

----------------------------------------------------------------------------
(* leave.csv parsing *)

Policy(package, carry, misc, cap) ==
    [package |-> package, carry_over |-> carry, misc |-> misc, cap |-> cap]

defaults == Policy(0, 0, 0, 0)

\* the lines of the text after token.strip(), the empty ones skipped
NonEmptyLines(text) == StripAndDropEmpty(SplitLines(Strip(text)))

\* whether a line is 4 integer fields
WellFormedLine(line) ==
    LET parts == Split(line, ",")
    IN  Len(parts) = 4 /\ \A i \in 1..4 : IntParse(parts[i]).ok

\* parse_leave_csv going on to the next line where the code returns the defaults
parse_leave_csv_SkipsBadLines(file) ==
    IF ~file.exists \/ ~file.utf8 THEN defaults
    ELSE LET good == SelectSeq(NonEmptyLines(file.text), WellFormedLine)
         IN  IF good = <<>> THEN defaults
             ELSE LET parts == Split(Head(good), ",")
                  IN  Policy(IntParse(parts[1]).val, IntParse(parts[2]).val,
                             IntParse(parts[3]).val, IntParse(parts[4]).val)

\* the first non-empty line decides: 4 fields that are integers, or the defaults;
\* read_text is inside the try, so bytes that are not UTF-8 give the defaults too
parse_leave_csv(file) ==
    IF ~file.exists THEN defaults
    ELSE IF ~file.utf8 THEN defaults
    ELSE LET lines == NonEmptyLines(file.text)
         IN  IF lines = <<>> THEN defaults
             ELSE LET parts == Split(Head(lines), ",")
                      ints  == [i \in 1..Len(parts) |-> IntParse(parts[i])]
                  IN  IF Len(parts) # 4 THEN defaults
                      ELSE IF \E i \in 1..4 : ~ints[i].ok THEN defaults
                      ELSE Policy(ints[1].val, ints[2].val, ints[3].val, ints[4].val)

----------------------------------------------------------------------------
(* Entitlements and usage *)

Min(a, b) == IF a < b THEN a ELSE b

Max(a, b) == IF a > b THEN a ELSE b

EmptyDict == [k \in {} |-> 0]

\* dict.get(k, default)
Get(dict, k, default) == IF k \in DOMAIN dict THEN dict[k] ELSE default

\* compute_leave_entitlements with the cap applied to the current year too
compute_leave_entitlements_CappedNow(info, current_year) ==
    [entitlements |-> [y \in {current_year, current_year + 1} |->
                          IF y = current_year THEN Min(info.carry_over, info.cap)
                          ELSE info.package + Min(info.carry_over, info.cap) + info.misc],
     burned |-> Max(info.carry_over - info.cap, 0)]

compute_leave_entitlements(info, current_year) ==
    LET carry         == info.carry_over
        package       == info.package
        misc          == info.misc
        cap           == info.cap
        next_year     == current_year + 1
        carry_allowed == Min(carry, cap)
        burned        == Max(carry - cap, 0)
    IN  [entitlements |-> [y \in {current_year, next_year} |->
                              IF y = current_year THEN carry
                              ELSE package + carry_allowed + misc],
         burned |-> burned]

\* CountsAsUsed without the public-holiday test
CountsAsUsed_IgnoresPublic(d, public, flags) == flags[Weekday(d) + 1] = 1

\* the condition under which a leave date is counted
CountsAsUsed(d, public, flags) == flags[Weekday(d) + 1] = 1 /\ d \notin public

\* the loop of compute_annual_leave_used over the dates not yet visited
RECURSIVE CountLoop(_, _, _, _)
CountLoop(todo, public, flags, count) ==
    IF todo = {} THEN count
    ELSE LET d == CHOOSE x \in todo : TRUE
         IN  CountLoop(todo \ {d}, public, flags,
                       IF CountsAsUsed(d, public, flags) THEN count + 1 ELSE count)

compute_annual_leave_used(holidays, public, flags) == CountLoop(holidays, public, flags, 0)

\* the loop of compute_annual_leave_used_by_year over the dates not yet visited
RECURSIVE ByYearLoop(_, _, _, _)
ByYearLoop(todo, public, flags, used) ==
    IF todo = {} THEN used
    ELSE LET d == CHOOSE x \in todo : TRUE
             y == d.year
         IN  ByYearLoop(todo \ {d}, public, flags,
                        IF CountsAsUsed(d, public, flags)
                        THEN [k \in DOMAIN used \cup {y} |->
                                 IF k = y THEN Get(used, y, 0) + 1 ELSE used[k]]
                        ELSE used)

compute_annual_leave_used_by_year(holidays, public, flags) ==
    ByYearLoop(holidays, public, flags, EmptyDict)

years_from_dates(public, holidays) == {d.year : d \in public \cup holidays}

\* ok with the 7 flags, or not ok (ValueError)
parse_working_days(text) ==
    LET s == Strip(text)
    IN  IF Len(s) # 7 \/ \E i \in 1..Len(s) : s[i] \notin {"0", "1"}
        THEN [ok |-> FALSE, val |-> <<>>]
        ELSE [ok |-> TRUE, val |-> [i \in 1..7 |-> DigitVal(s[i])]]

----------------------------------------------------------------------------
(* The calendar and the page *)

\* _status_for with the public-holiday test before the test for both
_status_for_PublicFirst(cur, flags, holidays, public) ==
    IF cur \in public THEN "public"
    ELSE IF cur \in public /\ cur \in holidays THEN "both"
    ELSE IF cur \in holidays THEN "holiday"
    ELSE IF flags[Weekday(cur) + 1] # 0 THEN "workday"
    ELSE ""

\* the CSS class of a day; "" is no class
_status_for(cur, flags, holidays, public) ==
    LET is_public  == cur \in public
        is_holiday == cur \in holidays
        is_working == flags[Weekday(cur) + 1] # 0
    IN  IF is_public /\ is_holiday THEN "both"
        ELSE IF is_public THEN "public"
        ELSE IF is_holiday THEN "holiday"
        ELSE IF is_working THEN "workday"
        ELSE ""

\* sorted(S) for a set of integers
RECURSIVE Sorted(_)
Sorted(S) ==
    IF S = {} THEN <<>>
    ELSE LET lo == CHOOSE x \in S : \A y \in S : x <= y
         IN  <<lo>> \o Sorted(S \ {lo})

\* the days whose cells the model keeps of the month grids: NDays days from the
\* last Saturday of 2024, which run into 2025
NDays == 5

RECURSIVE DaysFrom(_, _)
DaysFrom(d, n) == IF n = 0 THEN {} ELSE {d} \cup DaysFrom(NextDay(d), n - 1)

GridDays == DaysFrom(MkDate(2024, 12, 28), NDays)

NoDocument ==
    [used |-> 0, left |-> <<>>, burned |-> 0, years |-> <<>>, cells |-> EmptyDict]

\* the document: the three summary blocks, then the month grids of the years
\* (LeaveHTMLCalendar's constructor takes flags as they are: parse_working_days
\* returned 7 values of 0/1)
build_html_page(years, flags, holidays, public, used, left_by_year, burned) ==
    LET years_sorted == Sorted(years)
    IN  [used   |-> used,
         left   |-> [i \in 1..Cardinality(DOMAIN left_by_year) |->
                        LET y == Sorted(DOMAIN left_by_year)[i]
                        IN  [year |-> y, days |-> left_by_year[y]]],
         burned |-> burned,
         years  |-> years_sorted,
         cells  |-> [d \in {x \in GridDays : x.year \in years} |->
                        _status_for(d, flags, holidays, public)]]

----------------------------------------------------------------------------
(* main() *)

\* a line on sys.stderr
Line(metric, year, value) == [metric |-> metric, year |-> year, value |-> value]

\* line 358: the pattern is parsed before any file is touched; ValueError leaves main
ParseWorkingDays ==
    /\ pc = "parse_working_days"
    /\ LET r == parse_working_days(args.working_days)
       IN  /\ working_days' = r.val
           /\ pc' = IF r.ok THEN "load_public_holidays" ELSE "raised"
    /\ UNCHANGED <<args, fs, today_year, public_holidays, holiday_dates, leave_info,
                   entitlements, burned_leave, used_by_year, leave_left_by_year, ys,
                   annual_leave_used, html, out_file, stdout, stderr, reads, exit_status>>

\* line 360
LoadPublicHolidays ==
    /\ pc = "load_public_holidays"
    /\ reads' = reads \cup {"public_dir"}
    /\ public_holidays' = load_public_holidays(fs.public_dir)
    /\ pc' = "parse_holiday_ranges"
    /\ UNCHANGED <<args, fs, today_year, working_days, holiday_dates, leave_info,
                   entitlements, burned_leave, used_by_year, leave_left_by_year, ys,
                   annual_leave_used, html, out_file, stdout, stderr, exit_status>>

\* line 361: UnicodeDecodeError leaves main
ParseHolidayRanges ==
    /\ pc = "parse_holiday_ranges"
    /\ reads' = reads \cup {"csv"}
    /\ LET r == parse_holiday_ranges(fs.csv)
       IN  /\ holiday_dates' = r.dates
           /\ pc' = IF r.raised THEN "raised" ELSE "parse_leave_csv"
    /\ UNCHANGED <<args, fs, today_year, working_days, public_holidays, leave_info,
                   entitlements, burned_leave, used_by_year, leave_left_by_year, ys,
                   annual_leave_used, html, out_file, stdout, stderr, exit_status>>

\* lines 364-365
ParseLeaveCsv ==
    /\ pc = "parse_leave_csv"
    /\ reads' = reads \cup {"leave_csv"}
    /\ leave_info' = parse_leave_csv(fs.leave_csv)
    /\ pc' = "compute_leave_entitlements"
    /\ UNCHANGED <<args, fs, today_year, working_days, public_holidays, holiday_dates,
                   entitlements, burned_leave, used_by_year, leave_left_by_year, ys,
                   annual_leave_used, html, out_file, stdout, stderr, exit_status>>

\* lines 366-369
ComputeLeaveEntitlements ==
    /\ pc = "compute_leave_entitlements"
    /\ LET result == compute_leave_entitlements(leave_info, today_year)
       IN  /\ entitlements' = result.entitlements
           /\ burned_leave' = result.burned
    /\ pc' = "compute_used_by_year"
    /\ UNCHANGED <<args, fs, today_year, working_days, public_holidays, holiday_dates,
                   leave_info, used_by_year, leave_left_by_year, ys, annual_leave_used,
                   html, out_file, stdout, stderr, reads, exit_status>>

\* line 373
ComputeUsedByYear ==
    /\ pc = "compute_used_by_year"
    /\ used_by_year' =
           compute_annual_leave_used_by_year(holiday_dates, public_holidays, working_days)
    /\ pc' = "leave_left"
    /\ UNCHANGED <<args, fs, today_year, working_days, public_holidays, holiday_dates,
                   leave_info, entitlements, burned_leave, leave_left_by_year, ys,
                   annual_leave_used, html, out_file, stdout, stderr, reads, exit_status>>

\* LeaveLeft without the floor at 0
LeaveLeft_NoFloor(entitlement, used) == entitlement - used

\* line 379, for one year's entitlement
LeaveLeft(entitlement, used) == Max(entitlement - used, 0)

\* BurnedAfterUse without the floor at 0
BurnedAfterUse_NoFloor(burned, used) == burned - used

\* line 381
BurnedAfterUse(burned, used) == Max(burned - used, 0)

\* lines 376-381
ComputeLeaveLeft ==
    /\ pc = "leave_left"
    /\ leave_left_by_year' =
           [y \in DOMAIN entitlements |->
               LeaveLeft(entitlements[y], Get(used_by_year, y, 0))]
    /\ burned_leave' = BurnedAfterUse(burned_leave, Get(used_by_year, today_year, 0))
    /\ pc' = "select_years"
    /\ UNCHANGED <<args, fs, today_year, working_days, public_holidays, holiday_dates,
                   leave_info, entitlements, used_by_year, ys, annual_leave_used,
                   html, out_file, stdout, stderr, reads, exit_status>>

\* lines 394-400: the years of --show-years replace the years found in the data
ShownYears(show_years, found, current_year, next_year) ==
    IF show_years = "current" THEN {current_year}
    ELSE IF show_years = "next" THEN {next_year}
    ELSE {current_year, next_year}

\* lines 383-402
SelectYears ==
    /\ pc = "select_years"
    /\ LET current_year == today_year
           next_year    == current_year + 1
           from_data    == years_from_dates(public_holidays, holiday_dates)
           found        == (IF from_data = {} THEN {current_year} ELSE from_data)
                               \cup DOMAIN entitlements
       IN  /\ ys' = ShownYears(args.show_years, found, current_year, next_year)
           /\ leave_left_by_year' = [y \in ys' |-> Get(leave_left_by_year, y, 0)]
    /\ pc' = "compute_annual_leave_used"
    /\ UNCHANGED <<args, fs, today_year, working_days, public_holidays, holiday_dates,
                   leave_info, entitlements, burned_leave, used_by_year,
                   annual_leave_used, html, out_file, stdout, stderr, reads, exit_status>>

\* line 403
ComputeAnnualLeaveUsed ==
    /\ pc = "compute_annual_leave_used"
    /\ annual_leave_used' =
           compute_annual_leave_used(holiday_dates, public_holidays, working_days)
    /\ pc' = "build_html_page"
    /\ UNCHANGED <<args, fs, today_year, working_days, public_holidays, holiday_dates,
                   leave_info, entitlements, burned_leave, used_by_year,
                   leave_left_by_year, ys, html, out_file, stdout, stderr, reads,
                   exit_status>>

\* lines 406-409
BuildHtmlPage ==
    /\ pc = "build_html_page"
    /\ html' = build_html_page(ys, working_days, holiday_dates, public_holidays,
                               annual_leave_used, leave_left_by_year, burned_leave)
    /\ pc' = "write_out"
    /\ UNCHANGED <<args, fs, today_year, working_days, public_holidays, holiday_dates,
                   leave_info, entitlements, burned_leave, used_by_year,
                   leave_left_by_year, ys, annual_leave_used, out_file, stdout, stderr,
                   reads, exit_status>>

\* WriteOut without the try: a failed write leaves main
WriteOut_Abort ==
    /\ pc = "write_out"
    /\ out_file' = IF fs.out_writable THEN html ELSE out_file
    /\ pc' = IF fs.out_writable THEN "print_html" ELSE "raised"
    /\ UNCHANGED <<args, fs, today_year, working_days, public_holidays, holiday_dates,
                   leave_info, entitlements, burned_leave, used_by_year,
                   leave_left_by_year, ys, annual_leave_used, html, stdout, stderr, reads,
                   exit_status>>

\* lines 411-414: a failed write is reported on stderr and main goes on
WriteOut ==
    /\ pc = "write_out"
    /\ IF fs.out_writable
       THEN out_file' = html /\ stderr' = stderr
       ELSE out_file' = out_file
            /\ stderr' = Append(stderr, Line("Failed to write HTML file", 0, 0))
    /\ pc' = "print_html"
    /\ UNCHANGED <<args, fs, today_year, working_days, public_holidays, holiday_dates,
                   leave_info, entitlements, burned_leave, used_by_year,
                   leave_left_by_year, ys, annual_leave_used, html, stdout, reads,
                   exit_status>>

\* line 417
PrintHtml ==
    /\ pc = "print_html"
    /\ stdout' = Append(stdout, html)
    /\ pc' = "write_summary"
    /\ UNCHANGED <<args, fs, today_year, working_days, public_holidays, holiday_dates,
                   leave_info, entitlements, burned_leave, used_by_year,
                   leave_left_by_year, ys, annual_leave_used, html, out_file, stderr,
                   reads, exit_status>>

\* lines 422-424: the body of the loop writes two lines for each year
RECURSIVE YearLines(_, _, _)
YearLines(years, left_by_year, burned) ==
    IF years = <<>> THEN <<>>
    ELSE <<Line("Annual leave left", Head(years), left_by_year[Head(years)]),
           Line("Burned leave", 0, burned)>>
         \o YearLines(Tail(years), left_by_year, burned)

\* lines 421-424
SummaryLines(used, left_by_year, burned) ==
    <<Line("Annual leave used", 0, used)>>
        \o YearLines(Sorted(DOMAIN left_by_year), left_by_year, burned)

\* lines 421-425
WriteSummary ==
    /\ pc = "write_summary"
    /\ stderr' = stderr \o SummaryLines(annual_leave_used, leave_left_by_year, burned_leave)
    /\ pc' = "returned"
    /\ UNCHANGED <<args, fs, today_year, working_days, public_holidays, holiday_dates,
                   leave_info, entitlements, burned_leave, used_by_year,
                   leave_left_by_year, ys, annual_leave_used, html, out_file, stdout,
                   reads, exit_status>>

\* line 429: SystemExit(main()); an exception that left main ends the process with
\* its traceback on stderr and status 1
Exit ==
    /\ pc \in {"returned", "raised"}
    /\ exit_status' = IF pc = "returned" THEN 0 ELSE 1
    /\ stderr' = IF pc = "returned" THEN stderr ELSE Append(stderr, Line("Traceback", 0, 0))
    /\ pc' = "exited"
    /\ UNCHANGED <<args, fs, today_year, working_days, public_holidays, holiday_dates,
                   leave_info, entitlements, burned_leave, used_by_year,
                   leave_left_by_year, ys, annual_leave_used, html, out_file, stdout,
                   reads>>

Next ==
    \/ ParseWorkingDays
    \/ LoadPublicHolidays
    \/ ParseHolidayRanges
    \/ ParseLeaveCsv
    \/ ComputeLeaveEntitlements
    \/ ComputeUsedByYear
    \/ ComputeLeaveLeft
    \/ SelectYears
    \/ ComputeAnnualLeaveUsed
    \/ BuildHtmlPage
    \/ WriteOut
    \/ PrintHtml
    \/ WriteSummary
    \/ Exit

\* the state in which main() starts, with the command line a, the files f and the year y
Start(a, f, y) ==
    /\ pc = "parse_working_days"
    /\ args = a
    /\ fs = f
    /\ today_year = y
    /\ working_days = <<>>
    /\ public_holidays = {}
    /\ holiday_dates = {}
    /\ leave_info = defaults
    /\ entitlements = EmptyDict
    /\ burned_leave = 0
    /\ used_by_year = EmptyDict
    /\ leave_left_by_year = EmptyDict
    /\ ys = {}
    /\ annual_leave_used = 0
    /\ html = NoDocument
    /\ out_file = NoDocument
    /\ stdout = <<>>
    /\ stderr = <<>>
    /\ reads = {}
    /\ exit_status = -1

----------------------------------------------------------------------------
(* The inputs: texts written in the formats the parsers read *)

\* n in decimal, zero-padded to width digits
RECURSIVE NumText(_, _)
NumText(n, width) ==
    IF width = 0 THEN <<>> ELSE Append(NumText(n \div 10, width - 1), Digits[(n % 10) + 1])

RECURSIVE NatText(_)
NatText(n) == IF n < 10 THEN <<Digits[n + 1]>> ELSE Append(NatText(n \div 10), Digits[(n % 10) + 1])

IntText(n) == IF n < 0 THEN <<"-">> \o NatText(0 - n) ELSE NatText(n)

\* a date as yyyymmdd
Yyyymmdd(d) == NumText(d.year, 4) \o NumText(d.month, 2) \o NumText(d.day, 2)

\* a range token yyyymmdd-yyyymmdd
RangeToken(a, b) == Yyyymmdd(a) \o <<"-">> \o Yyyymmdd(b)

RECURSIVE Join(_, _)
Join(pieces, sep) ==
    IF pieces = <<>> THEN <<>>
    ELSE IF Len(pieces) = 1 THEN pieces[1]
    ELSE pieces[1] \o <<sep>> \o Join(Tail(pieces), sep)

\* the elements of a finite set, in some order
RECURSIVE SeqOf(_)
SeqOf(S) == IF S = {} THEN <<>> ELSE LET x == CHOOSE e \in S : TRUE IN <<x>> \o SeqOf(S \ {x})

\* a 0/1 pattern as the text of --working-days
PatternText(flags) == [i \in 1..Len(flags) |-> IF flags[i] = 1 THEN "1" ELSE "0"]

MonFri == <<1, 1, 1, 1, 1, 0, 0>>
MonSat == <<1, 1, 1, 1, 1, 1, 0>>
TueSun == <<0, 1, 1, 1, 1, 1, 1>>
NoDays == <<0, 0, 0, 0, 0, 0, 0>>

\* holidays.csv listing the dates of S one by one
CsvOfDates(S) == TextFile(Join([i \in 1..Cardinality(S) |-> Yyyymmdd(SeqOf(S)[i])], ","))

VALUE_DATE == <<";", "V", "A", "L", "U", "E", "=", "D", "A", "T", "E", ":">>

\* the lines of one all-day event
EventLines(d) ==
    <<BEGIN_VEVENT \o <<"\n">>,
      DTSTART \o VALUE_DATE \o Yyyymmdd(d) \o <<"\n">>,
      END_VEVENT \o <<"\n">>>>

RECURSIVE EventsLines(_)
EventsLines(dates) ==
    IF dates = <<>> THEN <<>> ELSE EventLines(Head(dates)) \o EventsLines(Tail(dates))

\* a calendar directory with one file listing the dates of S
DirOfDates(S) ==
    [exists |-> TRUE, files |-> <<[utf8 |-> TRUE, lines |-> EventsLines(SeqOf(S))]>>]

NoDir == [exists |-> FALSE, files |-> <<>>]

\* a field of leave.csv as it is written, with whether it reads as an integer and
\* whether it is blank
Field(text, int, blank) == [text |-> text, int |-> int, blank |-> blank]

IntField(n) == Field(IntText(n), TRUE, FALSE)

\* leave.csv written from rows of fields; rows is kept beside the text
LeaveCsvOfRows(rows) ==
    [exists |-> TRUE, utf8 |-> TRUE, rows |-> rows,
     text |-> Join([i \in 1..Len(rows) |->
                       Join([j \in 1..Len(rows[i]) |-> rows[i][j].text], ",")], "\n")]

LeaveCsvOfPolicy(p) ==
    LeaveCsvOfRows(<<<<IntField(p.package), IntField(p.carry_over),
                       IntField(p.misc), IntField(p.cap)>>>>)

MissingLeaveCsv == [exists |-> FALSE, utf8 |-> TRUE, rows |-> <<>>, text |-> <<>>]

UndecodableLeaveCsv == [exists |-> TRUE, utf8 |-> FALSE, rows |-> <<>>, text |-> <<>>]

Files(dir, csv, leave_csv, writable) ==
    [public_dir |-> dir, csv |-> csv, leave_csv |-> leave_csv, out_writable |-> writable]

Args(wd, show) == [working_days |-> wd, show_years |-> show]

ShowYearsChoices == {"current", "next", "both"}

----------------------------------------------------------------------------
(* Spec: runs over a mix of well-formed and defective inputs *)

Dec28 == MkDate(2024, 12, 28)
Dec30 == MkDate(2024, 12, 30)
Dec31 == MkDate(2024, 12, 31)
NewYear == MkDate(2025, 1, 1)

WorkingDaysArgs ==
    {PatternText(MonFri),
     PatternText(MonSat),
     <<" ">> \o PatternText(MonFri),
     SubSeq(PatternText(MonFri), 1, 6),
     PatternText(MonFri) \o <<"0">>,
     [PatternText(MonFri) EXCEPT ![3] = "2"]}

\* a file for 2025 whose DTSTART line is folded, with CRLF line ends
FoldedIcs ==
    [utf8 |-> TRUE,
     lines |-> <<BEGIN_VEVENT \o <<"\r", "\n">>,
                 DTSTART \o VALUE_DATE \o <<"2", "0", "2", "5", "\r", "\n">>,
                 <<" ", "0", "1", "0", "1", "\r", "\n">>,
                 END_VEVENT \o <<"\r", "\n">>>>]

\* a file for 2024 that is not UTF-8: a date-time DTSTART, a DTSTART without a date,
\* and a DTSTART outside any event
Latin1Ics ==
    [utf8 |-> FALSE,
     lines |-> <<DTSTART \o <<":">> \o Yyyymmdd(Dec30) \o <<"\n">>,
                 BEGIN_VEVENT \o <<"\n">>,
                 DTSTART \o <<":">> \o Yyyymmdd(Dec31) \o <<"T", "0", "0", "0", "0", "\n">>,
                 DTSTART \o <<"\n">>,
                 END_VEVENT \o <<"\n">>>>]

PublicDirs ==
    {NoDir, DirOfDates({NewYear}), [exists |-> TRUE, files |-> <<Latin1Ics, FoldedIcs>>]}

CsvFiles ==
    {MissingFile,
     UndecodableFile,
     TextFile(<<>>),
     TextFile(RangeToken(Dec30, NewYear)),
     TextFile(RangeToken(NewYear, Dec31) \o <<"\n">> \o Yyyymmdd(Dec28)
                  \o <<",", " ", "x", ",", "2", "0", "2", "4", "-", "1", "2">>)}

LeaveCsvFiles ==
    {MissingLeaveCsv,
     UndecodableLeaveCsv,
     LeaveCsvOfPolicy(Policy(14, 5, 2, 3)),
     LeaveCsvOfPolicy(Policy(0, 1, 0, 3)),
     LeaveCsvOfRows(<<<<IntField(14), IntField(5), IntField(2)>>>>),
     LeaveCsvOfRows(<<<<IntField(14), Field(<<"x">>, FALSE, FALSE), IntField(2), IntField(3)>>,
                      <<IntField(1), IntField(2), IntField(3), IntField(4)>>>>),
     LeaveCsvOfRows(<<<<Field(<<" ">>, FALSE, TRUE)>>,
                      <<IntField(1), Field(<<" ", "4", " ">>, TRUE, FALSE),
                        IntField(0), IntField(1)>>>>)}

Init ==
    \E wd \in WorkingDaysArgs, show \in ShowYearsChoices, dir \in PublicDirs,
       csv \in CsvFiles, leave_csv \in LeaveCsvFiles, writable \in BOOLEAN :
        Start(Args(wd, show), Files(dir, csv, leave_csv, writable), 2024)

Spec == Init /\ [][Next]_vars

----------------------------------------------------------------------------
(* SpecUsage: runs over every leave set and public-holiday set within GridDays *)

Patterns == {MonFri, MonSat, TueSun, NoDays}

InitUsage ==
    \E flags \in Patterns, P \in SUBSET GridDays, H \in SUBSET GridDays :
        Start(Args(PatternText(flags), "both"),
              Files(DirOfDates(P), CsvOfDates(H), LeaveCsvOfPolicy(Policy(14, 5, 2, 3)), TRUE),
              2024)

SpecUsage == InitUsage /\ [][Next]_vars

----------------------------------------------------------------------------
(* SpecReport: runs over policies, leave sets and year selections *)

MaxDays == 3

ReportPolicies ==
    {Policy(package, carry, 0, cap) :
        package \in {0, MaxDays}, carry \in (-1)..MaxDays, cap \in (-1)..MaxDays}

InitReport ==
    \E p \in ReportPolicies, P \in {{}, {NewYear}}, H \in SUBSET GridDays,
       show \in ShowYearsChoices :
        Start(Args(PatternText(MonFri), show),
              Files(DirOfDates(P), CsvOfDates(H), LeaveCsvOfPolicy(p), TRUE),
              2024)

SpecReport == InitReport /\ [][Next]_vars

----------------------------------------------------------------------------
(* SpecEntitlements: runs over every policy with days in PolicyDays *)

PolicyDays == ((-1)..MaxDays) \cup {5, 14}

InitEntitlements ==
    \E package \in PolicyDays, carry \in PolicyDays, misc \in PolicyDays,
       cap \in PolicyDays, y \in {2024, 2025} :
        Start(Args(PatternText(MonFri), "both"),
              Files(NoDir, MissingFile, LeaveCsvOfPolicy(Policy(package, carry, misc, cap)),
                    TRUE),
              y)

SpecEntitlements == InitEntitlements /\ [][Next]_vars

----------------------------------------------------------------------------
(* SpecRanges: runs whose holidays.csv is one range token, in either order *)

MaxSpan == 4

\* runs of MaxSpan + 1 days: over the leap day, over New Year, and up to date.max
RangeRuns ==
    {DaysFrom(MkDate(2024, 2, 27), MaxSpan + 1),
     DaysFrom(MkDate(2024, 12, 29), MaxSpan + 1),
     DaysFrom(MkDate(MAXYEAR, 12, 31 - MaxSpan), MaxSpan + 1)}

InitRanges ==
    \E run \in RangeRuns : \E a \in run, b \in run :
        Start(Args(PatternText(MonFri), "both"),
              Files(NoDir, TextFile(RangeToken(a, b)), MissingLeaveCsv, TRUE),
              2024)

SpecRanges == InitRanges /\ [][Next]_vars

----------------------------------------------------------------------------
(* SpecLeaveCsv: runs over leave.csv files whose first row has up to MaxFields  *)
(* fields, with or without a blank line before it, and a well-formed row after  *)

MaxFields == 5

FieldSamples ==
    {IntField(14),
     Field(<<" ", "-", "2", " ">>, TRUE, FALSE),
     Field(<<"x">>, FALSE, FALSE),
     Field(<<>>, FALSE, TRUE)}

FirstRows == UNION {[1..n -> FieldSamples] : n \in 1..MaxFields}

BlankRow == <<Field(<<" ">>, FALSE, TRUE)>>

LaterRow == <<IntField(1), IntField(2), IntField(3), IntField(4)>>

LeaveCsvSamples ==
    {MissingLeaveCsv, UndecodableLeaveCsv}
        \cup {LeaveCsvOfRows(<<r, LaterRow>>) : r \in FirstRows}
        \cup {LeaveCsvOfRows(<<BlankRow, r, LaterRow>>) : r \in FirstRows}

InitLeaveCsv ==
    \E leave_csv \in LeaveCsvSamples :
        Start(Args(PatternText(MonFri), "both"),
              Files(DirOfDates({NewYear}), TextFile(RangeToken(Dec30, NewYear)), leave_csv,
                    TRUE),
              2024)

SpecLeaveCsv == InitLeaveCsv /\ [][Next]_vars

----------------------------------------------------------------------------
(* What the properties below read off a state *)

Steps ==
    <<"parse_working_days", "load_public_holidays", "parse_holiday_ranges",
      "parse_leave_csv", "compute_leave_entitlements", "compute_used_by_year",
      "leave_left", "select_years", "compute_annual_leave_used", "build_html_page",
      "write_out", "print_html", "write_summary", "returned">>

StepIndex(p) == CHOOSE i \in 1..Len(Steps) : Steps[i] = p

\* main has run step p, and no exception has left main
Done(p) ==
    \/ pc = "exited" /\ exit_status = 0
    \/ pc \notin {"exited", "raised"} /\ StepIndex(pc) > StepIndex(p)

\* the leave date d is on a working weekday and is no public holiday
Counted(d) == working_days[Weekday(d) + 1] = 1 /\ d \notin public_holidays

\* the number of counted leave dates of year y
UsedIn(y) == Cardinality({d \in holiday_dates : d.year = y /\ Counted(d)})

RECURSIVE SumOver(_, _)
SumOver(dict, keys) ==
    IF keys = {} THEN 0
    ELSE LET k == CHOOSE x \in keys : TRUE IN dict[k] + SumOver(dict, keys \ {k})

\* the lines of a metric on stderr
LinesOf(metric) == SelectSeq(stderr, LAMBDA l : l.metric = metric)

LeftLinesOf(y) == SelectSeq(stderr, LAMBDA l : l.metric = "Annual leave left" /\ l.year = y)

\* the carry-over above the cap
Excess ==
    IF leave_info.carry_over > leave_info.cap
    THEN leave_info.carry_over - leave_info.cap ELSE 0

ExpectedBurned == IF Excess > UsedIn(today_year) THEN Excess - UsedIn(today_year) ELSE 0

ExpectedLeft(y) ==
    IF entitlements[y] > UsedIn(y) THEN entitlements[y] - UsedIn(y) ELSE 0

ExpectedYears ==
    CASE args.show_years = "current" -> {today_year}
      [] args.show_years = "next" -> {today_year + 1}
      [] args.show_years = "both" -> {today_year, today_year + 1}

----------------------------------------------------------------------------
(* C1, C5 under SpecUsage *)

\* C1: every day of the grids gets exactly one class, decided by the first match of:
\* in both sets -> both; public holiday only -> public; leave only -> holiday; in
\* neither and a working weekday -> workday; otherwise no class.  A date in both sets
\* is never public or holiday.
C1_StatusPrecedence ==
    Done("build_html_page") =>
        /\ DOMAIN html.cells = {d \in GridDays : d.year \in ys}
        /\ \A d \in DOMAIN html.cells :
              LET st  == html.cells[d]
                  pub == d \in public_holidays
                  lv  == d \in holiday_dates
                  wk  == working_days[Weekday(d) + 1] = 1
              IN  /\ st \in {"both", "public", "holiday", "workday", ""}
                  /\ (st = "both") <=> (pub /\ lv)
                  /\ (st = "public") <=> (pub /\ ~lv)
                  /\ (st = "holiday") <=> (~pub /\ lv)
                  /\ (st = "workday") <=> (~pub /\ ~lv /\ wk)
                  /\ (st = "") <=> (~pub /\ ~lv /\ ~wk)

\* a page on which all five outcomes occur
C1_Witness ==
    /\ Done("build_html_page")
    /\ \A st \in {"both", "public", "holiday", "workday", ""} :
          \E d \in DOMAIN html.cells : html.cells[d] = st

\* C5: a leave date is counted iff it is on a working weekday and is no public
\* holiday; the aggregate is the number of such dates, the per-year map gives the
\* number of such dates of each year, and the per-year counts sum to the aggregate;
\* a Saturday under 1111100 is not counted.
C5_UsageCounts ==
    /\ Done("compute_used_by_year") =>
          \A y \in {d.year : d \in holiday_dates} \cup DOMAIN used_by_year :
              Get(used_by_year, y, 0) = UsedIn(y)
    /\ Done("compute_annual_leave_used") =>
          /\ annual_leave_used = Cardinality({d \in holiday_dates : Counted(d)})
          /\ annual_leave_used = SumOver(used_by_year, DOMAIN used_by_year)
          /\ (holiday_dates = {Dec28} /\ working_days = MonFri) => annual_leave_used = 0
          /\ \A d \in holiday_dates :
                (holiday_dates \cap public_holidays = {d} \/ working_days = NoDays)
                    => annual_leave_used < Cardinality(holiday_dates)

\* leave in both years, of which a Saturday and a public holiday are not counted
C5_Witness ==
    /\ Done("compute_annual_leave_used")
    /\ working_days = MonFri
    /\ Dec28 \in holiday_dates
    /\ holiday_dates \cap public_holidays # {}
    /\ DOMAIN used_by_year = {2024, 2025}
    /\ annual_leave_used = 3

----------------------------------------------------------------------------
(* C2, C3 under SpecReport *)

\* C2: the burned amount in the page and in the summary is
\* max(max(carry_over - cap, 0) - used[current_year], 0): never negative, never more
\* than max(carry_over - cap, 0).
C2_BurnedReported ==
    /\ Done("build_html_page") =>
          /\ html.burned = ExpectedBurned
          /\ html.burned >= 0
          /\ html.burned <= Excess
    /\ Done("write_summary") =>
          /\ LinesOf("Burned leave") # <<>>
          /\ \A i \in 1..Len(LinesOf("Burned leave")) :
                LinesOf("Burned leave")[i].value = ExpectedBurned
          /\ stdout[1].burned = ExpectedBurned

\* usage lowers the burned amount without exhausting it
C2_Witness ==
    /\ Done("write_summary")
    /\ UsedIn(today_year) > 0
    /\ html.burned > 0
    /\ html.burned < Excess

\* C3: for every shown year the remaining leave in the page and in the summary is
\* max(entitlement[year] - used[year], 0), with used[year] = 0 when no counted leave
\* date is in that year; it is never negative.
C3_RemainingReported ==
    /\ Done("select_years") =>
          /\ ys = ExpectedYears
          /\ DOMAIN leave_left_by_year = ys
          /\ \A y \in ys : leave_left_by_year[y] = ExpectedLeft(y) /\ leave_left_by_year[y] >= 0
    /\ Done("build_html_page") =>
          /\ {html.left[i].year : i \in 1..Len(html.left)} = ys
          /\ \A i \in 1..Len(html.left) : html.left[i].days = ExpectedLeft(html.left[i].year)
    /\ Done("write_summary") =>
          /\ \A y \in ys : LeftLinesOf(y) # <<>>
          /\ \A i \in 1..Len(LinesOf("Annual leave left")) :
                LET l == LinesOf("Annual leave left")[i]
                IN  l.year \in ys /\ l.value = ExpectedLeft(l.year)

\* one year whose usage exceeds its entitlement, one whose usage leaves some
C3_Witness ==
    /\ Done("write_summary")
    /\ \E y \in ys : UsedIn(y) > entitlements[y] /\ entitlements[y] > 0
    /\ \E y \in ys : UsedIn(y) > 0 /\ leave_left_by_year[y] > 0

----------------------------------------------------------------------------
(* C4 under SpecEntitlements *)

\* C4: the entitlement map has exactly the keys Y and Y+1, with entitlement[Y] the
\* uncapped carry-over and entitlement[Y+1] = package + min(carry_over, cap) + misc,
\* and burned = max(carry_over - cap, 0); (14, 5, 2, 3) in 2024 gives
\* {2024: 5, 2025: 19} and burned 2.
C4_Entitlements ==
    LET p == leave_info
        Y == today_year
    IN  /\ Done("compute_leave_entitlements") =>
              /\ DOMAIN entitlements = {Y, Y + 1}
              /\ Cardinality(DOMAIN entitlements) = 2
              /\ entitlements[Y] = p.carry_over
              /\ entitlements[Y + 1] =
                     p.package + (IF p.carry_over <= p.cap THEN p.carry_over ELSE p.cap)
                         + p.misc
              /\ (p = Policy(14, 5, 2, 3) /\ Y = 2024) =>
                     entitlements = [y \in {2024, 2025} |-> IF y = 2024 THEN 5 ELSE 19]
        /\ pc \in {"compute_used_by_year", "leave_left"} =>
              /\ burned_leave = (IF p.carry_over > p.cap THEN p.carry_over - p.cap ELSE 0)
              /\ (p = Policy(14, 5, 2, 3)) => burned_leave = 2

\* the policy (14, 5, 2, 3) in 2024
C4_Witness ==
    /\ pc = "compute_used_by_year"
    /\ leave_info = Policy(14, 5, 2, 3)
    /\ today_year = 2024
    /\ entitlements[2025] = 19
    /\ burned_leave = 2

----------------------------------------------------------------------------
(* C6 under SpecLeaveCsv *)

\* the rows of leave.csv that are not blank lines
NonBlankRows == SelectSeq(fs.leave_csv.rows, LAMBDA r : ~(Len(r) = 1 /\ r[1].blank))

\* the record is missing, or its first non-empty line has not exactly 4 fields, or
\* one of them is no integer
MalformedRecord ==
    \/ ~fs.leave_csv.exists
    \/ /\ fs.leave_csv.utf8
       /\ \/ NonBlankRows = <<>>
          \/ Len(Head(NonBlankRows)) # 4
          \/ \E i \in 1..Len(Head(NonBlankRows)) : ~Head(NonBlankRows)[i].int

\* C6: a missing or malformed entitlement record gives the all-zero policy, whatever
\* the later lines hold, and the run then has entitlements {Y: 0, Y+1: 0} and burned 0.
C6_MalformedGivesZeros ==
    MalformedRecord =>
        /\ Done("parse_leave_csv") => leave_info = Policy(0, 0, 0, 0)
        /\ Done("compute_leave_entitlements") =>
              /\ entitlements = [y \in {today_year, today_year + 1} |-> 0]
              /\ burned_leave = 0
        /\ Done("build_html_page") => html.burned = 0

\* a first line of 4 fields, one of them no integer, before a well-formed line
C6_Witness ==
    /\ Done("compute_leave_entitlements")
    /\ MalformedRecord
    /\ fs.leave_csv.exists
    /\ Len(NonBlankRows) = 2
    /\ Len(Head(NonBlankRows)) = 4
    /\ entitlements = [y \in {today_year, today_year + 1} |-> 0]

----------------------------------------------------------------------------
(* C7, C8, C9 under Spec *)

\* exactly 7 characters of 0/1
SevenFlags(text) == Len(text) = 7 /\ \A i \in 1..Len(text) : text[i] \in {"0", "1"}

\* C7: with a pattern that is not exactly 7 characters of 0/1 the run fails with no
\* input read, no output file and nothing emitted by main on either channel; with a
\* valid pattern the run ends with exit status success whatever the input files hold.
C7_FatalOnlyOnBadPattern ==
    pc = "exited" =>
        IF SevenFlags(args.working_days)
        THEN exit_status = 0
        ELSE /\ exit_status # 0
             /\ reads = {}
             /\ out_file = NoDocument
             /\ stdout = <<>>
             /\ stderr = <<Line("Traceback", 0, 0)>>

\* C8: a failed write of the output file is reported on stderr and the run goes on:
\* the same document is printed on stdout afterwards, the summary is written, and the
\* exit status is success.
C8_WriteFailureNonFatal ==
    (~fs.out_writable /\ html # NoDocument /\ pc # "write_out") =>
        /\ pc # "raised"
        /\ stderr # <<>> /\ stderr[1] = Line("Failed to write HTML file", 0, 0)
        /\ out_file = NoDocument
        /\ pc \in {"write_summary", "returned", "exited"} => stdout = <<html>>
        /\ pc = "print_html" => stdout = <<>>
        /\ pc \in {"returned", "exited"} =>
              /\ LinesOf("Annual leave used") # <<>>
              /\ \A y \in ys : LeftLinesOf(y) # <<>>
              /\ LinesOf("Burned leave") # <<>>
        /\ pc = "exited" => exit_status = 0

\* a run that ended after a failed write
C8_Witness ==
    /\ ~fs.out_writable
    /\ pc = "exited"
    /\ exit_status = 0
    /\ stderr[1] = Line("Failed to write HTML file", 0, 0)
    /\ stdout = <<html>>
    /\ out_file = NoDocument

\* C9: in every successful run the summary on stderr holds one line for the leave
\* used, one line of remaining leave per shown year and one line for the burned
\* amount: each metric exactly once.
C9_EachMetricOnce ==
    Done("write_summary") =>
        /\ Len(LinesOf("Annual leave used")) = 1
        /\ \A y \in ys : Len(LeftLinesOf(y)) = 1
        /\ Len(LinesOf("Annual leave left")) = Cardinality(ys)
        /\ Len(LinesOf("Burned leave")) = 1

----------------------------------------------------------------------------
(* C10 under SpecRanges *)

\* C10: for valid dates A and B with B earlier than A, the token A-B expands to the
\* same dates as B-A: every date from B to A inclusive.
C10_SwapSymmetric ==
    Done("parse_holiday_ranges") =>
        \A run \in RangeRuns : \A a \in run, b \in run :
            (fs.csv = TextFile(RangeToken(a, b)) /\ ToOrdinal(b) < ToOrdinal(a)) =>
                /\ holiday_dates = parse_holiday_ranges(TextFile(RangeToken(b, a))).dates
                /\ holiday_dates =
                       {d \in run : ToOrdinal(b) <= ToOrdinal(d) /\ ToOrdinal(d) <= ToOrdinal(a)}

\* a reversed range over New Year, expanded to all its days
C10_Witness ==
    /\ Done("parse_holiday_ranges")
    /\ \E run \in RangeRuns : \E a \in run, b \in run :
          /\ fs.csv = TextFile(RangeToken(a, b))
          /\ a.year = b.year + 1
          /\ holiday_dates = run

====
